---- MODULE Spec2Model ----
(***************************************************************************)
(* The time-series viewport data loader of the gold-trading-platform       *)
(* frontend: MarketPage (frontend/src/pages/MarketPage.tsx) driving        *)
(* CandleChart (frontend/src/components/CandleChart.tsx), and the          *)
(* auto-update MarketPage variant.                                         *)
(*                                                                         *)
(* One action is one run-to-completion step of the single JavaScript       *)
(* thread: an event handler or a promise continuation, together with the   *)
(* React render and the effects that its state updates cause.              *)
(***************************************************************************)
EXTENDS Integers, Sequences, FiniteSets, TLC

\* ------------------------------------------------------------------ bounds
MaxTime == 2        \* candle instants are 1..MaxTime (epoch seconds)
MaxBatch == 2       \* records in one HTTP response
MaxInflight == 2    \* requests the network holds at once
MaxFrom == 3        \* largest left index a viewport shift is followed to
MaxAutoBatch == 1   \* records in one HTTP response, auto-update variant
MaxSeries == 2      \* candles of the series a merge is applied to

\* ------------------------------------------------------- program constants
LoadMoreThreshold == 50

TIMEFRAMES == {"1h"}
Symbols == {"XAUUSD", "EURUSD"}
Ohlc == {"p", "q"}
None == "none"          \* error === null
NoSel == <<>>            \* no selection
NoRange == <<>>          \* getVisibleLogicalRange() === null
NoBound == 0             \* query parameter absent
Froms == {0, 1, 50}
Span == 1

VARIABLES
    symbol, timeframe,      \* useState: the selection
    data,                   \* useState: the series
    loading, loadingMore,   \* useState: indicators
    error,                  \* useState: last failure message or None
    dataRef,                \* useRef: mirror of data
    loadingRef,             \* useRef: in-flight guard
    inflight,               \* requests issued by fetchData and not yet settled
    chart,                  \* the CandleChart instance (refs and surface)
    last,                   \* history: what the last step did
    exhaustedFor,           \* history: selection whose older fetch came back empty
    sources,                \* history: selections whose responses supplied data
    autoUpdate,             \* auto-update variant, useState: the toggle
    isLoadingRef,           \* auto-update variant, useRef: in-flight guard
    closureData,            \* auto-update variant: `data` as the memoized fetchData sees it
    liveInflight,           \* auto-update variant: requests of the interval, not yet settled
    intervals,              \* auto-update variant: the setInterval timers not yet cleared
    mergeIn, mergeOut,      \* the merges applied to drawn inputs, and their results
    loadMoreTimeoutRef,     \* debounced chart, useRef: ms left on the pending trigger
    isLoadingMoreRef,       \* debounced chart, useRef: the cool-down flag
    resetTimer,             \* debounced chart: ms left until the flag is reset
    sinceEvent,             \* history: ms since the last qualifying viewport event
    sinceDone,              \* history: ms since the last load-more fetch completed
    burst,                  \* history: the fate of the current burst of events
    burstEvents,            \* history: qualifying events in the current burst
    dataRangeRef            \* range-based variant, useRef: the loaded extent

vars == <<symbol, timeframe, data, loading, loadingMore, error, dataRef,
          loadingRef, inflight, chart, last, exhaustedFor, sources,
          autoUpdate, isLoadingRef, closureData, liveInflight, intervals,
          mergeIn, mergeOut,
          loadMoreTimeoutRef, isLoadingMoreRef, resetTimer,
          sinceEvent, sinceDone, burst, burstEvents, dataRangeRef>>

autoVars == <<autoUpdate, isLoadingRef, closureData, liveInflight, intervals>>

mergeVars == <<mergeIn, mergeOut>>

timerVars == <<loadMoreTimeoutRef, isLoadingMoreRef, resetTimer,
               sinceEvent, sinceDone, burst, burstEvents>>

rangeVars == <<dataRangeRef>>

NoTimer == -1            \* no timeout pending

\* dataRangeRef.current === null
NoExtent == [min |-> 0, max |-> 0]

RangeIdle == dataRangeRef = NoExtent

\* the merge inputs and results where no merge is being compared
NoMerge == [pc |-> "off"]

MergeIdle == mergeIn = NoMerge /\ mergeOut = NoMerge

\* the debounced chart's refs and timers where that chart is not in use
TimersIdle ==
    /\ loadMoreTimeoutRef = NoTimer
    /\ isLoadingMoreRef = FALSE
    /\ resetTimer = NoTimer
    /\ sinceEvent = 0
    /\ sinceDone = NoTimer
    /\ burst = "none"
    /\ burstEvents = 0

\* --------------------------------------------------------------- data model
Selections == Symbols \X TIMEFRAMES

\* a raw response record: time as delivered and the OHLC payload
RawTimes == [kind : {"iso"}, t : 1..MaxTime]
RawRecords == [time : RawTimes, ohlc : Ohlc]

RECURSIVE SeqsUpTo(_, _)
SeqsUpTo(S, n) ==
    IF n = 0 THEN {<<>>}
    ELSE LET shorter == SeqsUpTo(S, n - 1)
         IN  shorter \cup {Append(s, x) : s \in {q \in shorter : Len(q) = n - 1}, x \in S}

Batches == SeqsUpTo(RawRecords, MaxBatch)

NaN == -1                \* the time of an Invalid Date

\* new Date(d.time).getTime() / 1000
\* an ISO-8601 string parses to its instant; a number is taken as milliseconds
NormTime(rt) ==
    IF rt.kind = "iso" THEN rt.t
    ELSE IF rt.kind = "num" THEN rt.t \div 1000
    ELSE NaN

\* rawData.map(d => ({ time, open, high, low, close }))
MapRaw(rawData) ==
    [i \in 1..Len(rawData) |->
        [time |-> NormTime(rawData[i].time), ohlc |-> rawData[i].ohlc]]

\* Array.prototype.sort((a, b) => a.time - b.time): stable, ascending
InsertSorted(c, s) ==
    LET k == Cardinality({i \in 1..Len(s) : s[i].time <= c.time})
    IN  SubSeq(s, 1, k) \o <<c>> \o SubSeq(s, k + 1, Len(s))

RECURSIVE SortByTime(_)
SortByTime(s) ==
    IF Len(s) = 0 THEN <<>>
    ELSE InsertSorted(s[Len(s)], SortByTime(SubSeq(s, 1, Len(s) - 1)))

Times(s) == {s[i].time : i \in 1..Len(s)}

\* MergeOlder without the existingTimes filter
MergeOlderNoFilter(prev, chartData) ==
    SortByTime(chartData \o prev)

\* setData(prev => ...) of the load-more branch
MergeOlder(prev, chartData) ==
    LET existingTimes == Times(prev)
        uniqueNewData == SelectSeq(chartData, LAMBDA d : d.time \notin existingTimes)
        combined == uniqueNewData \o prev
    IN  SortByTime(combined)

\* MergeRange without the sort of the combined series
MergeRangeNoSort(prev, chartData) ==
    LET existingTimes == Times(prev)
    IN  prev \o SelectSeq(chartData, LAMBDA d : d.time \notin existingTimes)

\* setData(prev => ...) of fetchDataForRange, range-based variant
MergeRange(prev, chartData) ==
    LET existingTimes == Times(prev)
        uniqueNewData == SelectSeq(chartData, LAMBDA d : d.time \notin existingTimes)
        combined == prev \o uniqueNewData
    IN  SortByTime(combined)

\* rawData.map(...) followed by chartData.sort(...)
ChartData(rawData) == SortByTime(MapRaw(rawData))

\* ---------------------------------------------------------------- CandleChart
\* no CandleChart instance: the page renders the "Loading..." placeholder
NoChart ==
    [mounted |-> FALSE, onLoadMore |-> NoSel, prevDataLengthRef |-> 0,
     range |-> NoRange, seriesData |-> <<>>]

\* chart.timeScale().fitContent(): the whole dataset becomes visible
FitContent(d) == <<0, Len(d) - 1>>

\* DataEffect with the range advanced by the new length, not by the growth
DataEffectShiftByLength(ch, d) ==
    LET currentDataLength == Len(d)
        prevDataLength == ch.prevDataLengthRef
        currentRange == ch.range
    IN  IF ~ch.mounted \/ currentDataLength = 0 THEN ch
        ELSE IF prevDataLength = 0
        THEN [ch EXCEPT !.seriesData = d, !.range = FitContent(d),
                        !.prevDataLengthRef = currentDataLength]
        ELSE IF currentDataLength > prevDataLength
        THEN [ch EXCEPT !.seriesData = d,
                        !.range = IF currentRange # NoRange
                                  THEN <<currentRange[1] + currentDataLength,
                                         currentRange[2] + currentDataLength>>
                                  ELSE currentRange,
                        !.prevDataLengthRef = currentDataLength]
        ELSE [ch EXCEPT !.seriesData = d, !.prevDataLengthRef = currentDataLength]

\* the "Handle Data Updates" effect, run for the series value d
DataEffect(ch, d) ==
    LET currentDataLength == Len(d)
        prevDataLength == ch.prevDataLengthRef
        addedCount == currentDataLength - prevDataLength
        currentRange == ch.range
    IN  IF ~ch.mounted \/ currentDataLength = 0 THEN ch
        ELSE IF prevDataLength = 0
        THEN [ch EXCEPT !.seriesData = d, !.range = FitContent(d),
                        !.prevDataLengthRef = currentDataLength]
        ELSE IF currentDataLength > prevDataLength
        THEN [ch EXCEPT !.seriesData = d,
                        !.range = IF currentRange # NoRange
                                  THEN <<currentRange[1] + addedCount,
                                         currentRange[2] + addedCount>>
                                  ELSE currentRange,
                        !.prevDataLengthRef = currentDataLength]
        ELSE [ch EXCEPT !.seriesData = d, !.prevDataLengthRef = currentDataLength]

\* {loading && data.length === 0 ? <div>Loading...</div> : <CandleChart .../>}
ShowChart(ld, d) == ~(ld /\ Len(d) = 0)

\* the "Initialize Chart" effect of a fresh CandleChart: the range subscription
\* captures onLoadMore of the render that mounts it, i.e. that render's fetchData
MountChart(sel) ==
    [mounted |-> TRUE, onLoadMore |-> sel, prevDataLengthRef |-> 0,
     range |-> NoRange, seriesData |-> <<>>]

\* one React commit of MarketPage: mount, unmount or update CandleChart
Render(ch, ld, d, dataSet, sel) ==
    IF ~ShowChart(ld, d) THEN NoChart
    ELSE IF ~ch.mounted THEN DataEffect(MountChart(sel), d)
    ELSE IF dataSet THEN DataEffect(ch, d)
    ELSE ch

\* ------------------------------------------------------------- MarketPage
Sel == <<symbol, timeframe>>

\* fetchData without its guard
AdmittedAlways(ref) == TRUE

\* if (loadingRef.current) return;
Admitted(ref) == ~ref

\* Request with the end bound taken from the newest candle
RequestNewest(sel, isLoadMore, ref) ==
    [sel |-> sel, isLoadMore |-> isLoadMore,
     start |-> NoBound,
     end |-> IF isLoadMore /\ Len(ref) > 0 THEN ref[Len(ref)].time ELSE NoBound,
     seen |-> ref]

\* the request fetchData builds: the closure's selection, limit=500, and for a
\* load-more on a non-empty series end = time of dataRef.current[0];
\* seen is history: the series at the moment the request is issued
Request(sel, isLoadMore, ref) ==
    [sel |-> sel, isLoadMore |-> isLoadMore,
     start |-> NoBound,
     end |-> IF isLoadMore /\ Len(ref) > 0 THEN ref[1].time ELSE NoBound,
     seen |-> ref]

\* the merge put Len(new) - Len(old) candles in front of a non-empty old series
HeadInsertion(old, new) ==
    /\ Len(old) > 0
    /\ Len(new) > Len(old)
    /\ new[Len(new) - Len(old)].time < old[1].time

\* history record: the step taken, and for a stored load-more response the
\* number of candles it added and whether all of them precede the old series
Last(op, more, added, atHead) ==
    [op |-> op, isLoadMore |-> more, added |-> added, atHead |-> atHead]

\* fetchData up to its first await, called from a closure over selection sel
\* with the series already set to d (and dataRef to ref) by the caller
FetchData(sel, isLoadMore, d, ref, dataSet, what) ==
    IF Admitted(loadingRef) /\ Len(inflight) < MaxInflight
    THEN /\ loadingRef' = TRUE
         /\ loading' = IF isLoadMore THEN loading ELSE TRUE
         /\ loadingMore' = IF isLoadMore THEN TRUE ELSE loadingMore
         /\ error' = None
         /\ inflight' = Append(inflight, Request(sel, isLoadMore, ref))
         /\ chart' = Render(what, loading', d, dataSet, Sel')
         /\ last' = Last("sent", isLoadMore, 0, FALSE)
    ELSE /\ UNCHANGED <<loadingRef, loading, loadingMore, error, inflight>>
         /\ chart' = Render(what, loading, d, dataSet, Sel')
         /\ last' = Last("dropped", isLoadMore, 0, FALSE)

\* the "Initial load" effect after symbol or timeframe changed
InitialLoad ==
    /\ data' = <<>>
    /\ dataRef' = <<>>
    /\ FetchData(Sel', FALSE, <<>>, <<>>, TRUE, chart)
    /\ exhaustedFor' = NoSel
    /\ sources' = {}

\* onChange of the symbol input or of the timeframe select: the state setter
\* re-renders with a new fetchData, whose change runs the "Initial load" effect
SelectionChange(s, tf) ==
    /\ <<s, tf>> # Sel
    /\ symbol' = s
    /\ timeframe' = tf
    /\ InitialLoad
    /\ UNCHANGED <<autoVars, rangeVars, mergeVars, timerVars>>

\* onClick of the Refresh button (disabled while loading)
Refresh ==
    /\ ~loading
    /\ UNCHANGED <<symbol, timeframe, data, dataRef, exhaustedFor, sources>>
    /\ UNCHANGED <<autoVars, rangeVars, mergeVars, timerVars>>
    /\ FetchData(Sel, FALSE, data, dataRef, FALSE, chart)

\* the chart reports a visible logical range; near the left edge the
\* subscription calls the onLoadMore it captured when the chart was created
RangeChange(from, to) ==
    /\ chart.mounted
    /\ chart.range # NoRange
    /\ UNCHANGED <<symbol, timeframe, data, dataRef, exhaustedFor, sources>>
    /\ UNCHANGED <<autoVars, rangeVars, mergeVars, timerVars>>
    /\ LET moved == [chart EXCEPT !.range = <<from, to>>]
       IN  IF from < LoadMoreThreshold
           THEN FetchData(chart.onLoadMore, TRUE, data, dataRef, FALSE, moved)
           ELSE /\ chart' = moved
                /\ last' = Last("scroll", FALSE, 0, FALSE)
                /\ UNCHANGED <<loadingRef, loading, loadingMore, error, inflight>>

\* the model follows a viewport shift only up to MaxFrom
ShiftFollowed(old, new) ==
    IF new = old \/ new = NoRange THEN TRUE ELSE new[1] <= MaxFrom

Remove(s, i) == SubSeq(s, 1, i - 1) \o SubSeq(s, i + 1, Len(s))

\* the series fetchData stores for an OK response with a non-empty body
Stored(req, rawData, prev) ==
    LET chartData == SortByTime(MapRaw(rawData))
    IN  IF req.isLoadMore THEN MergeOlder(prev, chartData) ELSE chartData

\* SettledData with setData([]) in the catch block
SettledDataClearOnError(req, ok, rawData, prev) ==
    IF ~ok THEN <<>>
    ELSE IF Len(rawData) > 0 THEN Stored(req, rawData, prev) ELSE prev

\* SettledData without the rawData.length === 0 return
SettledDataNoEmptyCheck(req, ok, rawData, prev) ==
    IF ok THEN Stored(req, rawData, prev) ELSE prev

\* the series after the continuation of fetchData: a failure throws before
\* any setData, an empty body returns before any setData
SettledData(req, ok, rawData, prev) ==
    IF ok /\ Len(rawData) > 0 THEN Stored(req, rawData, prev) ELSE prev

\* GuardAfterSettle with the release after the try block instead of in finally:
\* the early return of the empty path skips it
GuardAfterSettleNoFinally(ok, rawData) == ok /\ Len(rawData) = 0

\* loadingRef.current after the finally block
GuardAfterSettle(ok, rawData) == FALSE

\* the continuation of fetchData after its awaits, for request inflight[i]:
\* ok = FALSE is a rejected fetch or a non-OK status
Settle(i, ok, rawData) ==
    /\ i \in 1..Len(inflight)
    /\ LET req == inflight[i]
           stores == ok /\ Len(rawData) > 0
       IN  /\ data' = SettledData(req, ok, rawData, data)
           /\ error' = IF ok THEN error ELSE "Failed to fetch data"
           /\ loadingRef' = GuardAfterSettle(ok, rawData)
           /\ loading' = FALSE
           /\ loadingMore' = FALSE
           /\ dataRef' = data'
           /\ inflight' = Remove(inflight, i)
           /\ chart' = Render(chart, loading', data', stores, Sel)
           /\ last' = Last(IF ~ok THEN "failed" ELSE IF stores THEN "stored" ELSE "empty",
                           req.isLoadMore,
                           IF stores /\ req.isLoadMore THEN Len(data') - Len(data) ELSE 0,
                           stores /\ req.isLoadMore /\ HeadInsertion(data, data'))
           /\ exhaustedFor' = IF ok /\ ~stores /\ req.isLoadMore /\ req.sel = Sel
                              THEN Sel ELSE exhaustedFor
           /\ sources' = IF ~stores THEN sources
                         ELSE IF ~req.isLoadMore THEN {req.sel}
                         ELSE IF Len(data') > Len(data) THEN sources \cup {req.sel}
                         ELSE sources
           /\ ShiftFollowed(chart.range, chart'.range)
    /\ UNCHANGED <<symbol, timeframe>>
    /\ UNCHANGED <<autoVars, rangeVars, mergeVars, timerVars>>

\* after the first commit: the mount effect has issued the initial request
pageVars == <<symbol, timeframe, data, loading, loadingMore, error, dataRef,
              loadingRef, inflight, chart, last, exhaustedFor, sources>>

Init ==
    /\ symbol = "XAUUSD"
    /\ timeframe = "1h"
    /\ data = <<>>
    /\ dataRef = <<>>
    /\ loading = TRUE
    /\ loadingMore = FALSE
    /\ error = None
    /\ loadingRef = TRUE
    /\ inflight = <<Request(<<"XAUUSD", "1h">>, FALSE, <<>>)>>
    /\ chart = NoChart
    /\ last = Last("sent", FALSE, 0, FALSE)
    /\ exhaustedFor = NoSel
    /\ sources = {}
    /\ autoUpdate = FALSE
    /\ isLoadingRef = FALSE
    /\ closureData = <<>>
    /\ liveInflight = <<>>
    /\ intervals = <<>>
    /\ MergeIdle
    /\ TimersIdle
    /\ RangeIdle

Next ==
    \/ \E s \in Symbols, tf \in TIMEFRAMES : SelectionChange(s, tf)
    \/ Refresh
    \/ \E from \in Froms : RangeChange(from, from + Span)
    \/ \E i \in 1..MaxInflight : Settle(i, FALSE, <<>>)
    \/ \E i \in 1..MaxInflight, rawData \in Batches : Settle(i, TRUE, rawData)

Spec == Init /\ [][Next]_vars

\* ------------------------------------------- MarketPage, auto-update variant
coreOnly == <<loadingRef, loadingMore, exhaustedFor, sources>>

\* IntervalEffect without the cleanup's clearInterval
IntervalEffectNoCleanup(ivs, au, sel) ==
    IF au THEN Append(ivs, [sel |-> sel]) ELSE ivs

\* the [autoUpdate, symbol, timeframe] effect re-run: the cleanup of the
\* previous run clears its interval, then a new one is set when autoUpdate
IntervalEffect(ivs, au, sel) ==
    IF au THEN <<[sel |-> sel]>> ELSE <<>>

\* left indices the chart reports in this variant: below and at the threshold
AutoFroms == {0, 50}

AutoNoChart ==
    [mounted |-> FALSE, onLoadMore |-> NoSel, closureData |-> <<>>,
     prevDataLengthRef |-> 0, range |-> NoRange, seriesData |-> <<>>]

\* a fresh CandleChart captures handleLoadMore, hence the memoized fetchData
\* of the render that mounts it: its selection and its `data`
AutoMountChart(sel, cd) ==
    [mounted |-> TRUE, onLoadMore |-> sel, closureData |-> cd,
     prevDataLengthRef |-> 0, range |-> NoRange, seriesData |-> <<>>]

AutoRender(ch, ld, d, dataSet, sel, cd) ==
    IF ~ShowChart(ld, d) THEN AutoNoChart
    ELSE IF ~ch.mounted THEN DataEffect(AutoMountChart(sel, cd), d)
    ELSE IF dataSet THEN DataEffect(ch, d)
    ELSE ch

\* typeof d.time === 'string' ? new Date(d.time).getTime() / 1000 : d.time
NormTimeTyped(rt) ==
    IF rt.kind = "iso" THEN rt.t
    ELSE IF rt.kind = "num" THEN rt.t
    ELSE NaN

MapRawTyped(rawData) ==
    [i \in 1..Len(rawData) |->
        [time |-> NormTimeTyped(rawData[i].time), ohlc |-> rawData[i].ohlc]]

\* responses drawn for the auto-update variant: any times, in any order, one
\* OHLC payload
AutoBatches == SeqsUpTo([time : RawTimes, ohlc : {"p"}], MaxAutoBatch)

\* the request of the auto-update fetchData (limit=1000), with the `data` its
\* closure holds
AutoRequest(sel, isLoadMore, ref, cd) ==
    [sel |-> sel, isLoadMore |-> isLoadMore, start |-> NoBound,
     end |-> IF isLoadMore /\ Len(ref) > 0 THEN ref[1].time ELSE NoBound,
     data |-> cd]

\* fetchData of the auto-update variant up to its first await
AutoFetchData(sel, cd, isLoadMore, what) ==
    IF Admitted(isLoadingRef) /\ Len(inflight) + Len(liveInflight) < MaxInflight
    THEN /\ isLoadingRef' = TRUE
         /\ loading' = IF isLoadMore THEN loading ELSE TRUE
         /\ error' = None
         /\ inflight' = Append(inflight, AutoRequest(sel, isLoadMore, dataRef, cd))
         /\ chart' = AutoRender(what, loading', data, FALSE, Sel', closureData')
         /\ UNCHANGED last
    ELSE /\ UNCHANGED <<isLoadingRef, loading, error, inflight>>
         /\ chart' = AutoRender(what, loading, data, FALSE, Sel', closureData')
         /\ UNCHANGED last

\* onChange of the symbol input or the timeframe select: fetchData is memoized
\* anew over this render's `data`, and the [symbol, timeframe] effect calls it
AutoSelectionChange(s, tf) ==
    /\ <<s, tf>> # Sel
    /\ symbol' = s
    /\ timeframe' = tf
    /\ closureData' = data
    /\ AutoFetchData(<<s, tf>>, data, FALSE, chart)
    /\ intervals' = IntervalEffect(intervals, autoUpdate, <<s, tf>>)
    /\ UNCHANGED <<data, dataRef, autoUpdate, liveInflight>>
    /\ UNCHANGED <<coreOnly, rangeVars, mergeVars, timerVars>>

\* onClick of the Refresh button (never disabled in this variant)
AutoRefresh ==
    /\ UNCHANGED <<symbol, timeframe, data, dataRef, autoUpdate, closureData, liveInflight>>
    /\ UNCHANGED <<coreOnly, rangeVars, mergeVars, timerVars, intervals>>
    /\ AutoFetchData(Sel, closureData, FALSE, chart)

\* the chart reports a visible logical range; near the left edge it calls the
\* handleLoadMore it captured
AutoRangeChange(from, to) ==
    /\ chart.mounted
    /\ chart.range # NoRange
    /\ UNCHANGED <<symbol, timeframe, data, dataRef, autoUpdate, closureData, liveInflight>>
    /\ UNCHANGED <<coreOnly, rangeVars, mergeVars, timerVars, intervals>>
    /\ LET moved == [chart EXCEPT !.range = <<from, to>>]
       IN  IF from < LoadMoreThreshold
           THEN AutoFetchData(chart.onLoadMore, chart.closureData, TRUE, moved)
           ELSE /\ chart' = moved
                /\ UNCHANGED last
                /\ UNCHANGED <<isLoadingRef, loading, error, inflight>>

\* the series the auto-update fetchData stores for a non-empty OK response:
\* a load-more prepends to the `data` of its closure, without sorting
AutoStored(req, rawData) ==
    LET chartData == SortByTime(MapRawTyped(rawData))
        existingTimes == Times(req.data)
        uniqueNewData == SelectSeq(chartData, LAMBDA d : d.time \notin existingTimes)
        newData == uniqueNewData \o req.data
    IN  IF req.isLoadMore THEN newData ELSE chartData

\* the series after fetchData's continuation ran for req on the series cur
AfterFetch(req, ok, rawData, cur) ==
    IF ok /\ Len(rawData) > 0 THEN AutoStored(req, rawData) ELSE cur

\* the continuation of the auto-update fetchData for request inflight[i]
AutoSettle(i, ok, rawData) ==
    /\ i \in 1..Len(inflight)
    /\ LET req == inflight[i]
           stores == ok /\ Len(rawData) > 0
       IN  /\ data' = AfterFetch(req, ok, rawData, data)
           /\ dataRef' = data'
           /\ error' = IF ok THEN error ELSE "Failed to fetch data"
           /\ loading' = FALSE
           /\ isLoadingRef' = FALSE
           /\ inflight' = Remove(inflight, i)
           /\ chart' = AutoRender(chart, loading', data', stores, Sel, closureData)
           /\ UNCHANGED last
           /\ ShiftFollowed(chart.range, chart'.range)
    /\ UNCHANGED <<symbol, timeframe, autoUpdate, closureData, liveInflight>>
    /\ UNCHANGED <<coreOnly, rangeVars, mergeVars, timerVars, intervals>>

\* onChange of the Auto Update checkbox: the effect clears the old interval
\* and, when checked, sets a new one over the current selection
ToggleAutoUpdate ==
    /\ autoUpdate' = ~autoUpdate
    /\ intervals' = IntervalEffect(intervals, ~autoUpdate, Sel)
    /\ UNCHANGED last
    /\ UNCHANGED <<symbol, timeframe, data, dataRef, loading, error, inflight, chart,
                   isLoadingRef, closureData, liveInflight>>
    /\ UNCHANGED <<coreOnly, rangeVars, mergeVars, timerVars>>

\* a 5 s interval fires: fetch(...) is called directly, with the symbol and
\* timeframe of the render that set the interval
IntervalTick ==
    /\ Len(inflight) + Len(liveInflight) < MaxInflight
    /\ \E k \in 1..Len(intervals) :
          liveInflight' = Append(liveInflight, [sel |-> intervals[k].sel])
    /\ UNCHANGED last
    /\ UNCHANGED <<symbol, timeframe, data, dataRef, loading, error, inflight, chart,
                   autoUpdate, isLoadingRef, closureData>>
    /\ UNCHANGED <<coreOnly, rangeVars, mergeVars, timerVars, intervals>>

\* the series after the interval's .then chain ran on the series cur; a
\* rejected fetch only reaches .catch(console.error)
AfterLive(ok, rawData, cur) ==
    IF ok THEN SortByTime(MapRaw(rawData)) ELSE cur

\* the .then chain of the interval's fetch for request liveInflight[i]
LiveSettle(i, ok, rawData) ==
    /\ i \in 1..Len(liveInflight)
    /\ data' = AfterLive(ok, rawData, data)
    /\ dataRef' = data'
    /\ liveInflight' = Remove(liveInflight, i)
    /\ chart' = AutoRender(chart, loading, data', ok, Sel, closureData)
    /\ UNCHANGED last
    /\ ShiftFollowed(chart.range, chart'.range)
    /\ UNCHANGED <<symbol, timeframe, loading, error, inflight,
                   autoUpdate, isLoadingRef, closureData>>
    /\ UNCHANGED <<coreOnly, rangeVars, mergeVars, timerVars, intervals>>

\* after the first commit: the [symbol, timeframe] effect has called fetchData()
InitAuto ==
    /\ symbol = "XAUUSD"
    /\ timeframe = "1h"
    /\ data = <<>>
    /\ dataRef = <<>>
    /\ loading = TRUE
    /\ loadingMore = FALSE
    /\ error = None
    /\ loadingRef = FALSE
    /\ isLoadingRef = TRUE
    /\ closureData = <<>>
    /\ inflight = <<AutoRequest(<<"XAUUSD", "1h">>, FALSE, <<>>, <<>>)>>
    /\ liveInflight = <<>>
    /\ autoUpdate = FALSE
    /\ chart = AutoNoChart
    /\ last = Last("sent", FALSE, 0, FALSE)
    /\ exhaustedFor = NoSel
    /\ sources = {}
    /\ intervals = <<>>
    /\ MergeIdle
    /\ TimersIdle
    /\ RangeIdle

NextAuto ==
    \/ \E s \in Symbols, tf \in TIMEFRAMES : AutoSelectionChange(s, tf)
    \/ AutoRefresh
    \/ \E from \in AutoFroms : AutoRangeChange(from, from + Span)
    \/ \E i \in 1..MaxInflight : AutoSettle(i, FALSE, <<>>)
    \/ \E i \in 1..MaxInflight, rawData \in AutoBatches : AutoSettle(i, TRUE, rawData)
    \/ ToggleAutoUpdate
    \/ IntervalTick
    \/ \E i \in 1..MaxInflight : LiveSettle(i, FALSE, <<>>)
    \/ \E i \in 1..MaxInflight, rawData \in AutoBatches : LiveSettle(i, TRUE, rawData)

SpecAuto == InitAuto /\ [][NextAuto]_vars

\* ------------------------------------------------------------------ claims

\* C1: a response to a request issued under another selection than the
\* current one leaves the series data as it is.
C1_StaleResponseDiscarded ==
    [][\A i \in 1..Len(inflight) :
          (inflight' = Remove(inflight, i) /\ inflight[i].sel # Sel) => data' = data]_vars

\* C2: at most one request of fetchData is outstanding, and a load-more
\* trigger that arrives while one is outstanding sends nothing.
C2_SingleFlight ==
    [][/\ Len(inflight) <= 1
       /\ Len(inflight') <= 1
       /\ (Len(inflight) >= 1 /\ last'.isLoadMore /\ last'.op \in {"sent", "dropped"})
             => inflight' = inflight]_vars

C2_Witness ==
    /\ last.op = "dropped"
    /\ last.isLoadMore
    /\ Len(inflight) = 1

\* C3: the series is strictly ascending by time, no two candles share a time.
StrictlyAscending(s) == \A i \in 1..(Len(s) - 1) : s[i].time < s[i + 1].time

C3_StrictlyAscending == StrictlyAscending(data)

\* C4: while the selection stays the same, every candle of the series whose
\* time was already present carries values that were stored for that time.
C4_FirstSeenWins ==
    [][Sel' = Sel =>
          \A j \in 1..Len(data') :
              data'[j].time \in Times(data) => \E i \in 1..Len(data) : data[i] = data'[j]]_vars

\* C5: all candles of the series come from responses for one selection.
C5_OneSelection == Cardinality(sources) <= 1

\* C6: a load-more merge that puts k candles in front of a non-empty series
\* moves the visible logical range from [from, to] to [from + k, to + k], and
\* index i + k of the new series holds the candle index i held before.
C6_ShiftCompensation ==
    [][(last'.op = "stored" /\ last'.isLoadMore /\ inflight' # inflight
          /\ HeadInsertion(data, data'))
       => LET k == Len(data') - Len(data)
          IN  /\ chart.range # NoRange
              /\ chart'.range = <<chart.range[1] + k, chart.range[2] + k>>
              /\ chart'.seriesData = data'
              /\ \A i \in chart.range[1]..chart.range[2] :
                    (i + 1) \in 1..Len(data) => data'[i + 1 + k] = data[i + 1]]_vars

C6_Witness ==
    /\ last.op = "stored"
    /\ last.atHead
    /\ last.added = 2
    /\ chart.range = <<2, 3>>
    /\ Len(data) >= 3

\* C9: once an older fetch of the current selection has returned an empty
\* array, no older request is sent for it until the selection changes.
C9_NoOlderRequestAfterEmpty ==
    [][(exhaustedFor = Sel /\ Sel' = Sel /\ Len(inflight') > Len(inflight))
       => LET req == inflight'[Len(inflight')]
          IN  ~(req.isLoadMore /\ req.sel = Sel)]_vars

\* C10: while the selection stays the same, the timestamps of the series after
\* a step include the timestamps before it.
C10_OnlyMerges ==
    [][Sel' = Sel => Times(data) \subseteq Times(data')]_vars

\* C7: in the auto-update variant a live-refresh request and a request of
\* fetchData (initial, Refresh or load-more) are never outstanding together.
C7_LiveRefreshGuarded == Len(liveInflight) = 0 \/ Len(inflight) = 0

\* C8: in the auto-update variant, when a load-more request and a live-refresh
\* request are both outstanding, applying the two responses in either order
\* leaves the same series.
C8_OrderIndependent ==
    \A i \in 1..Len(inflight) :
        (inflight[i].isLoadMore /\ Len(liveInflight) > 0)
        => \A ra \in AutoBatches, rb \in AutoBatches :
              AfterLive(TRUE, rb, AfterFetch(inflight[i], TRUE, ra, data))
                 = AfterFetch(inflight[i], TRUE, ra, AfterLive(TRUE, rb, data))

\* C13 (as stated): when a request fails, data is what it was when the
\* request was issued, and error holds the failure message.
C13_FailureLeavesIssuedSeries ==
    [][\A i \in 1..Len(inflight) :
          (inflight' = Remove(inflight, i) /\ last'.op = "failed")
          => (data' = inflight[i].seen /\ error' = "Failed to fetch data")]_vars

\* C13 (amended): when a request fails, data is what it was immediately
\* before the failure was handled and error holds the failure message; an
\* empty response sets no error.
C13_FailureLeavesSeries ==
    [][(Len(inflight') < Len(inflight))
       => /\ last'.op = "failed" => (data' = data /\ error' = "Failed to fetch data")
          /\ last'.op = "empty" => error' = None]_vars

C13_Witness ==
    /\ last.op = "failed"
    /\ error = "Failed to fetch data"
    /\ Len(data) > 0

\* C14: an empty-array response leaves data as it is, for a load-more, an
\* initial load and a Refresh.
C14_EmptyResponseNoOp ==
    [][(Len(inflight') < Len(inflight) /\ last'.op = "empty")
       => (data' = data /\ dataRef' = data)]_vars

C14_Witness ==
    /\ last.op = "empty"
    /\ ~last.isLoadMore
    /\ Len(data) > 0

\* C15: when a request of fetchData settles, on whichever path, loadingRef is
\* false afterwards and the next call of fetchData is admitted.
C15_GuardReleased ==
    [][(Len(inflight') < Len(inflight))
       => (~loadingRef' /\ Admitted(loadingRef') /\ inflight' = <<>>)]_vars

C15_Witness ==
    /\ last.op = "empty"
    /\ last.isLoadMore
    /\ ~loadingRef
    /\ inflight = <<>>

\* C16: a selection change leaves data and dataRef empty and issues a request
\* for the new selection in the same step.
C16_ChangeIssuesFirstRequest ==
    [][Sel' # Sel
       => /\ data' = <<>>
          /\ dataRef' = <<>>
          /\ Len(inflight') = Len(inflight) + 1
          /\ inflight'[Len(inflight')].sel = Sel']_vars

\* C20: a load-more request issued on a non-empty series carries the minimum
\* time of the series as its end bound and no start bound.
MinTime(s) == CHOOSE t \in Times(s) : \A u \in Times(s) : t <= u

C20_OlderBound ==
    [][(Len(inflight') = Len(inflight) + 1 /\ inflight'[Len(inflight')].isLoadMore
          /\ Len(data) > 0)
       => LET req == inflight'[Len(inflight')]
          IN  req.end = MinTime(data) /\ req.start = NoBound]_vars

C20_Witness ==
    /\ Len(inflight) = 1
    /\ inflight[1].isLoadMore
    /\ Len(data) >= 2
    /\ inflight[1].end = data[1].time
    /\ data[Len(data)].time > inflight[1].end

\* C17: in the auto-update variant at most one interval is live in any state,
\* it is the one set for the current autoUpdate, symbol and timeframe, and
\* every request an interval issues is for the current selection while
\* auto-update is enabled: a cleared interval issues nothing further.
C17_OneLiveInterval ==
    /\ [](/\ Len(intervals) <= 1
          /\ (~autoUpdate => intervals = <<>>)
          /\ (Len(intervals) = 1 => (autoUpdate /\ intervals[1].sel = Sel)))
    /\ [][Len(liveInflight') > Len(liveInflight)
          => (autoUpdate /\ liveInflight'[Len(liveInflight')].sel = Sel)]_vars

C17_Witness ==
    /\ autoUpdate
    /\ Len(intervals) = 1
    /\ intervals[1].sel = <<"EURUSD", "1h">>
    /\ Len(liveInflight) > 0
    /\ liveInflight[1].sel = <<"XAUUSD", "1h">>

\* ------------------------------------------------- the merges on their own
Candles == [time : 1..MaxTime, ohlc : Ohlc]

\* the series a merge can meet: ascending by time, equal times allowed
SortedSeries ==
    {s \in SeqsUpTo(Candles, MaxSeries) :
        \A i \in 1..(Len(s) - 1) : s[i].time <= s[i + 1].time}

\* a series prev and two response bodies a and b are drawn
InitMerge ==
    /\ mergeIn \in [prev : SortedSeries, a : Batches, b : Batches]
    /\ mergeOut = [pc |-> "drawn"]
    /\ symbol = "XAUUSD"
    /\ timeframe = "1h"
    /\ data = <<>>
    /\ dataRef = <<>>
    /\ loading = FALSE
    /\ loadingMore = FALSE
    /\ error = None
    /\ loadingRef = FALSE
    /\ inflight = <<>>
    /\ chart = NoChart
    /\ last = Last("sent", FALSE, 0, FALSE)
    /\ exhaustedFor = NoSel
    /\ sources = {}
    /\ autoUpdate = FALSE
    /\ isLoadingRef = FALSE
    /\ closureData = <<>>
    /\ liveInflight = <<>>
    /\ intervals = <<>>
    /\ TimersIdle
    /\ RangeIdle

\* each body is merged into prev, by the load-more merge and by the range merge
MergeFirst ==
    /\ mergeOut.pc = "drawn"
    /\ mergeOut' =
         [pc |-> "first",
          olderA |-> MergeOlder(mergeIn.prev, ChartData(mergeIn.a)),
          olderB |-> MergeOlder(mergeIn.prev, ChartData(mergeIn.b)),
          rangeA |-> MergeRange(mergeIn.prev, ChartData(mergeIn.a)),
          rangeB |-> MergeRange(mergeIn.prev, ChartData(mergeIn.b))]
    /\ UNCHANGED <<mergeIn, pageVars, autoVars, rangeVars, timerVars>>

\* a second body is merged into each result: a again, b after a, a after b
MergeSecond ==
    /\ mergeOut.pc = "first"
    /\ mergeOut' =
         [pc |-> "second",
          olderA |-> mergeOut.olderA,
          olderAA |-> MergeOlder(mergeOut.olderA, ChartData(mergeIn.a)),
          olderAB |-> MergeOlder(mergeOut.olderA, ChartData(mergeIn.b)),
          olderBA |-> MergeOlder(mergeOut.olderB, ChartData(mergeIn.a)),
          rangeAB |-> MergeRange(mergeOut.rangeA, ChartData(mergeIn.b)),
          rangeBA |-> MergeRange(mergeOut.rangeB, ChartData(mergeIn.a))]
    /\ UNCHANGED <<mergeIn, pageVars, autoVars, rangeVars, timerVars>>

NextMerge ==
    \/ MergeFirst
    \/ MergeSecond

SpecMerge == InitMerge /\ [][NextMerge]_vars

\* C11: merging the same response body twice with the load-more merge leaves
\* the series the first merge left.
C11_MergeIdempotent ==
    mergeOut.pc = "second" => mergeOut.olderAA = mergeOut.olderA

C11_Witness ==
    /\ mergeOut.pc = "second"
    /\ Len(mergeIn.prev) > 0
    /\ Len(mergeIn.a) = 2
    /\ Times(ChartData(mergeIn.a)) \cap Times(mergeIn.prev) # {}
    /\ Len(mergeOut.olderA) > Len(mergeIn.prev)
    /\ mergeOut.olderAA = mergeOut.olderA

\* C12: for two response bodies with no timestamp in common, merging one and
\* then the other gives the same series in either order, for the load-more
\* merge and for the range merge.
C12_MergeCommutes ==
    (/\ mergeOut.pc = "second"
     /\ Times(ChartData(mergeIn.a)) \cap Times(ChartData(mergeIn.b)) = {})
    => /\ mergeOut.olderAB = mergeOut.olderBA
       /\ mergeOut.rangeAB = mergeOut.rangeBA

C12_Witness ==
    /\ mergeOut.pc = "second"
    /\ Len(mergeIn.prev) > 0
    /\ Len(mergeIn.a) > 0
    /\ Len(mergeIn.b) = 2
    /\ Times(ChartData(mergeIn.a)) \cap Times(ChartData(mergeIn.b)) = {}
    /\ Len(mergeOut.olderAB) > Len(mergeIn.prev) + 1
    /\ mergeOut.rangeAB = mergeOut.rangeBA

\* ------------------- MarketPage driving the debounced CandleChart variant
DebounceMs == 500       \* delay of the debounced trigger
CooldownMs == 2000      \* delay of the reset of isLoadingMoreRef
Steps == {250}          \* ms by which time is seen to pass
DebounceFroms == {0, 1} \* left indices the chart reports: below and above 0.5
MaxBurst == 2           \* events counted in one burst

debounceIdle == <<chart, last, exhaustedFor, sources>>

\* the page shows the chart unless it shows the "Loading..." placeholder
Mounted(ld, d) == ~(ld /\ Len(d) = 0)

\* range.from < 0.5
NearLeftEdge(from) == 2 * from < 1

\* Rearm that leaves a pending timeout running
RearmKeepPending(pending) ==
    IF pending # NoTimer THEN pending ELSE DebounceMs

\* clearTimeout of the pending timeout, then setTimeout(..., 500)
Rearm(pending) == DebounceMs

\* the chart's refs and timers after a render of the page: every render
\* passes a new onLoadMore, so the chart effect's cleanup clears the pending
\* timeout and the chart is created anew; when the placeholder replaces the
\* chart or the chart replaces the placeholder the refs are those of a new
\* component instance
ChartAfterRender(before, after) ==
    /\ loadMoreTimeoutRef' = NoTimer
    /\ isLoadingMoreRef' = (before /\ after /\ isLoadingMoreRef)
    /\ resetTimer' = IF before /\ after THEN resetTimer ELSE NoTimer
    /\ burst' = IF burst = "open" THEN "torn" ELSE burst
    /\ UNCHANGED <<sinceEvent, burstEvents>>

\* fetchData up to its first await; TRUE iff the call was admitted
PageFetch(sel, isLoadMore, ref) ==
    IF Admitted(loadingRef)
    THEN /\ loadingRef' = TRUE
         /\ loading' = IF isLoadMore THEN loading ELSE TRUE
         /\ loadingMore' = IF isLoadMore THEN TRUE ELSE loadingMore
         /\ error' = None
         /\ inflight' = Append(inflight, Request(sel, isLoadMore, ref))
    ELSE UNCHANGED <<loadingRef, loading, loadingMore, error, inflight>>

\* the subscription callback of subscribeVisibleLogicalRangeChange
ViewportEvent(from) ==
    /\ Mounted(loading, data)
    /\ IF NearLeftEdge(from) /\ ~isLoadingMoreRef
       THEN /\ loadMoreTimeoutRef' = Rearm(loadMoreTimeoutRef)
            /\ sinceEvent' = 0
            /\ burst' = "open"
            /\ burstEvents' = IF burst = "none" THEN 1
                              ELSE IF burstEvents < MaxBurst THEN burstEvents + 1
                              ELSE burstEvents
       ELSE UNCHANGED <<loadMoreTimeoutRef, sinceEvent, burst, burstEvents>>
    /\ UNCHANGED <<isLoadingMoreRef, resetTimer, sinceDone>>
    /\ UNCHANGED <<pageVars, autoVars, rangeVars, mergeVars>>

\* the debounced timeout fires: the flag is set, onLoadMore() calls
\* fetchData(true), and the reset of the flag is scheduled
DebounceFire ==
    /\ loadMoreTimeoutRef = 0
    /\ loadMoreTimeoutRef' = NoTimer
    /\ isLoadingMoreRef' = TRUE
    /\ resetTimer' = CooldownMs
    /\ burst' = "none"
    /\ PageFetch(Sel, TRUE, dataRef)
    /\ UNCHANGED <<sinceEvent, sinceDone, burstEvents>>
    /\ UNCHANGED <<symbol, timeframe, data, dataRef>>
    /\ UNCHANGED <<debounceIdle, autoVars, rangeVars, mergeVars>>

\* the nested timeout fires: the flag is reset
ResetFire ==
    /\ resetTimer = 0
    /\ resetTimer' = NoTimer
    /\ isLoadingMoreRef' = FALSE
    /\ UNCHANGED <<loadMoreTimeoutRef, sinceEvent, sinceDone, burst, burstEvents>>
    /\ UNCHANGED <<pageVars, autoVars, rangeVars, mergeVars>>

Elapsed(t, d) == IF t = NoTimer THEN NoTimer ELSE t - d

Since(t, d, cap) == IF t = NoTimer THEN NoTimer ELSE IF t + d > cap THEN cap ELSE t + d

\* d ms pass; a timeout that is due fires before time passes on
Advance(d) ==
    /\ loadMoreTimeoutRef = NoTimer \/ loadMoreTimeoutRef >= d
    /\ resetTimer = NoTimer \/ resetTimer >= d
    /\ loadMoreTimeoutRef' = Elapsed(loadMoreTimeoutRef, d)
    /\ resetTimer' = Elapsed(resetTimer, d)
    /\ sinceEvent' = IF burst = "none" THEN sinceEvent ELSE Since(sinceEvent, d, DebounceMs)
    /\ sinceDone' = Since(sinceDone, d, CooldownMs)
    /\ UNCHANGED <<isLoadingMoreRef, burst, burstEvents>>
    /\ UNCHANGED <<pageVars, autoVars, rangeVars, mergeVars>>

\* onClick of the Refresh button (disabled while loading)
DebounceRefresh ==
    /\ ~loading
    /\ PageFetch(Sel, FALSE, dataRef)
    /\ IF Admitted(loadingRef)
       THEN ChartAfterRender(Mounted(loading, data), Mounted(loading', data))
       ELSE UNCHANGED <<loadMoreTimeoutRef, isLoadingMoreRef, resetTimer, burst,
                        sinceEvent, burstEvents>>
    /\ UNCHANGED sinceDone
    /\ UNCHANGED <<symbol, timeframe, data, dataRef>>
    /\ UNCHANGED <<debounceIdle, autoVars, rangeVars, mergeVars>>

\* onChange of the symbol input or of the timeframe select
DebounceSelectionChange(s, tf) ==
    /\ <<s, tf>> # Sel
    /\ symbol' = s
    /\ timeframe' = tf
    /\ data' = <<>>
    /\ dataRef' = <<>>
    /\ PageFetch(<<s, tf>>, FALSE, <<>>)
    /\ ChartAfterRender(Mounted(loading, data), Mounted(loading', data'))
    /\ UNCHANGED sinceDone
    /\ UNCHANGED <<debounceIdle, autoVars, rangeVars, mergeVars>>

\* the continuation of fetchData after its awaits, for the request in flight
DebounceSettle(ok, rawData) ==
    /\ Len(inflight) = 1
    /\ LET req == inflight[1]
       IN  /\ data' = SettledData(req, ok, rawData, data)
           /\ error' = IF ok THEN error ELSE "Failed to fetch data"
           /\ sinceDone' = IF req.isLoadMore THEN 0 ELSE sinceDone
    /\ loadingRef' = GuardAfterSettle(ok, rawData)
    /\ loading' = FALSE
    /\ loadingMore' = FALSE
    /\ dataRef' = data'
    /\ inflight' = <<>>
    /\ ChartAfterRender(Mounted(loading, data), Mounted(loading', data'))
    /\ UNCHANGED <<symbol, timeframe>>
    /\ UNCHANGED <<debounceIdle, autoVars, rangeVars, mergeVars>>

\* after the first commit: the mount effect has issued the initial request
InitDebounce ==
    /\ symbol = "XAUUSD"
    /\ timeframe = "1h"
    /\ data = <<>>
    /\ dataRef = <<>>
    /\ loading = TRUE
    /\ loadingMore = FALSE
    /\ error = None
    /\ loadingRef = TRUE
    /\ inflight = <<Request(<<"XAUUSD", "1h">>, FALSE, <<>>)>>
    /\ chart = NoChart
    /\ last = Last("sent", FALSE, 0, FALSE)
    /\ exhaustedFor = NoSel
    /\ sources = {}
    /\ autoUpdate = FALSE
    /\ isLoadingRef = FALSE
    /\ closureData = <<>>
    /\ liveInflight = <<>>
    /\ intervals = <<>>
    /\ MergeIdle
    /\ TimersIdle
    /\ RangeIdle

NextDebounce ==
    \/ \E from \in DebounceFroms : ViewportEvent(from)
    \/ DebounceFire
    \/ ResetFire
    \/ \E d \in Steps : Advance(d)
    \/ DebounceRefresh
    \/ \E s \in Symbols, tf \in TIMEFRAMES : DebounceSelectionChange(s, tf)
    \/ DebounceSettle(FALSE, <<>>)
    \/ \E rawData \in AutoBatches : DebounceSettle(TRUE, rawData)

SpecDebounce == InitDebounce /\ [][NextDebounce]_vars

\* C18 (as stated): a burst of qualifying events is answered by exactly one
\* call of onLoadMore, 500 ms after its last event.
C18_OneCallPerBurst ==
    /\ [](burst = "torn" => sinceEvent < DebounceMs)
    /\ [][(~isLoadingMoreRef /\ isLoadingMoreRef')
          => (burst = "open" /\ sinceEvent = DebounceMs /\ burst' = "none")]_vars

\* C18 (amended): while the chart instance that saw the burst lives, exactly
\* one trigger is pending for the burst and it is due 500 ms after the last
\* event; onLoadMore is called only by that trigger, which ends the burst;
\* a render of the page tears the chart down and cancels the trigger.
C18_OneCallPerBurstOfLivingChart ==
    /\ [](burst = "open" => loadMoreTimeoutRef = DebounceMs - sinceEvent)
    /\ [](burst # "open" => loadMoreTimeoutRef = NoTimer)
    /\ [][(~isLoadingMoreRef /\ isLoadingMoreRef')
          => (burst = "open" /\ sinceEvent = DebounceMs /\ burst' = "none"
              /\ loadMoreTimeoutRef' = NoTimer)]_vars

C18_Witness ==
    /\ burst = "none"
    /\ burstEvents = 2
    /\ sinceEvent = DebounceMs
    /\ isLoadingMoreRef
    /\ resetTimer = CooldownMs
    /\ loadingMore

\* C19: a load-more request is issued only when no load-more fetch has
\* completed in the 2 s before.
C19_CooldownAfterCompletion ==
    [][(Len(inflight') > Len(inflight) /\ inflight'[Len(inflight')].isLoadMore)
       => (sinceDone = NoTimer \/ sinceDone >= CooldownMs)]_vars

\* C22: whenever the chart is shown, the dataset its series holds is the
\* current series data, also after the series was cleared to empty.
C22_SurfaceHoldsSeries ==
    chart.mounted => chart.seriesData = data

\* C23: a settled response advances the visible logical range of a chart
\* that already held data only if it put candles in front of the old series.
C23_ShiftOnlyOnHeadInsertion ==
    [][(/\ Len(inflight') < Len(inflight)
        /\ chart.mounted /\ chart'.mounted
        /\ chart.prevDataLengthRef > 0
        /\ chart.range # NoRange /\ chart'.range # NoRange
        /\ chart'.range[1] > chart.range[1])
       => HeadInsertion(data, data')]_vars

\* C27: the first non-empty series after an empty one reaches a shown chart
\* as an initial load: setData of the series, then fitContent.
C27_InitialLoadAfterClear ==
    [][(Len(data) = 0 /\ Len(data') > 0 /\ chart'.mounted)
       => (/\ chart'.seriesData = data'
           /\ chart'.range = FitContent(data')
           /\ chart'.prevDataLengthRef = Len(data'))]_vars

\* C30: loadingRef is true exactly when one request of fetchData is
\* outstanding, and with none outstanding loading and loadingMore are false.
C30_GuardMirrorsInflight ==
    /\ loadingRef <=> (Len(inflight) = 1)
    /\ Len(inflight) <= 1
    /\ (inflight = <<>>) => (~loading /\ ~loadingMore)

C30_Witness ==
    /\ Len(inflight) = 1
    /\ inflight[1].isLoadMore
    /\ loadingRef
    /\ loadingMore
    /\ ~loading
    /\ Len(data) > 0

\* ----------- MarketPage with one selection change and a network that serves
\* the user acts until the symbol is changed to EURUSD and not after it
BeforeChange == symbol = "XAUUSD"

\* some outstanding request is answered with a non-empty body
SettleServed ==
    \E i \in 1..MaxInflight, rawData \in Batches \ {<<>>} : Settle(i, TRUE, rawData)

NextServed ==
    \/ BeforeChange /\ SelectionChange("EURUSD", "1h")
    \/ BeforeChange /\ Refresh
    \/ BeforeChange /\ \E from \in Froms : RangeChange(from, from + Span)
    \/ SettleServed

\* every outstanding request is eventually answered
SpecServed == Init /\ [][NextServed]_vars /\ WF_vars(SettleServed)

\* C26: once the symbol has been changed, the series eventually holds candles
\* that came from responses to requests for the new selection only.
C26_NewSelectionLoaded ==
    (symbol = "EURUSD") ~> (Len(data) > 0 /\ sources = {<<"EURUSD", "1h">>})

\* C28: in the auto-update variant the continuation of a load-more request
\* leaves every candle time of the series in the series.
C28_LoadMoreKeepsLoaded ==
    [][\A i \in 1..Len(inflight) :
          (inflight' = Remove(inflight, i) /\ inflight[i].isLoadMore)
          => Times(data) \subseteq Times(data')]_vars

\* ------------------------------------- the storing of a response on its own
\* time fields as delivered: an ISO-8601 string for second t, a number of
\* epoch seconds (whole thousands, so that / 1000 is exact), or a missing or
\* unparsable value
TypedTimes ==
    [kind : {"iso"}, t : 1..MaxTime]
      \cup [kind : {"num"}, t : {1000 * k : k \in 1..MaxTime}]
      \cup [kind : {"bad"}, t : {0}]

\* the instant, in epoch seconds, that a well-formed time field denotes
Instant(rt) == rt.t

Malformed(d) == d.time.kind = "bad" \/ d.ohlc = "undefined"

TypedBatches ==
    SeqsUpTo([time : TypedTimes, ohlc : Ohlc \cup {"undefined"}], MaxBatch) \ {<<>>}

Perms(s) ==
    {[i \in 1..Len(s) |-> s[f[i]]] :
        f \in {g \in [1..Len(s) -> 1..Len(s)] : \A i, j \in 1..Len(s) : g[i] = g[j] => i = j}}

\* Array.prototype.sort with (a, b) => a.time - b.time: with a NaN time the
\* comparator is inconsistent and the order is implementation-defined
SortOutcomes(s) ==
    IF NaN \in Times(s) THEN Perms(s) ELSE {SortByTime(s)}

\* the series fetchData can store for a non-empty body
StoredOutcomes(isLoadMore, rawData, prev) ==
    IF isLoadMore
    THEN UNION {SortOutcomes(SelectSeq(chartData, LAMBDA d : d.time \notin Times(prev)) \o prev) :
                  chartData \in SortOutcomes(MapRaw(rawData))}
    ELSE SortOutcomes(MapRaw(rawData))

\* a series prev, a response body raw and the kind of request are drawn
InitParse ==
    /\ mergeIn \in [prev : SortedSeries, raw : TypedBatches, isLoadMore : BOOLEAN]
    /\ mergeOut = [pc |-> "drawn"]
    /\ symbol = "XAUUSD"
    /\ timeframe = "1h"
    /\ data = <<>>
    /\ dataRef = <<>>
    /\ loading = FALSE
    /\ loadingMore = FALSE
    /\ error = None
    /\ loadingRef = FALSE
    /\ inflight = <<>>
    /\ chart = NoChart
    /\ last = Last("sent", FALSE, 0, FALSE)
    /\ exhaustedFor = NoSel
    /\ sources = {}
    /\ autoUpdate = FALSE
    /\ isLoadingRef = FALSE
    /\ closureData = <<>>
    /\ liveInflight = <<>>
    /\ intervals = <<>>
    /\ TimersIdle
    /\ RangeIdle

\* the continuation of fetchData for an OK response with body raw: nothing in
\* the map, the sort or the merge throws, so no error is set
ParseStore ==
    /\ mergeOut.pc = "drawn"
    /\ \E out \in StoredOutcomes(mergeIn.isLoadMore, mergeIn.raw, mergeIn.prev) :
          mergeOut' = [pc |-> "stored",
                       data |-> out,
                       error |-> None,
                       mapped |-> MapRaw(mergeIn.raw),
                       typed |-> MapRawTyped(mergeIn.raw)]
    /\ UNCHANGED <<mergeIn, pageVars, autoVars, rangeVars, timerVars>>

NextParse == ParseStore

SpecParse == InitParse /\ [][NextParse]_vars

\* C24: a record whose time field denotes instant t, as an ISO-8601 string or
\* as a number of epoch seconds, is mapped to a candle of time t, by
\* MarketPage.fetchData and by the fetchData of the auto-update variant.
C24_TimeNormalized ==
    mergeOut.pc = "stored"
    => \A i \in 1..Len(mergeIn.raw) :
          mergeIn.raw[i].time.kind # "bad"
          => /\ mergeOut.mapped[i].time = Instant(mergeIn.raw[i].time)
             /\ mergeOut.typed[i].time = Instant(mergeIn.raw[i].time)

\* C25: a response with a malformed record leaves the series as it was and
\* sets an error.
C25_MalformedBatchRejected ==
    (/\ mergeOut.pc = "stored"
     /\ \E i \in 1..Len(mergeIn.raw) : Malformed(mergeIn.raw[i]))
    => (mergeOut.data = mergeIn.prev /\ mergeOut.error # None)

\* ------------------------------------------ MarketPage, range-based variant
\* times the chart reports as the edges of the visible range
RangeTimes == 0..(MaxTime + 1)

rangeIdle == <<dataRef, loadingMore, chart, exhaustedFor, sources,
               isLoadingRef, closureData>>

\* { min: combined[0].time, max: combined[combined.length - 1].time }
Extent(s) == [min |-> s[1].time, max |-> s[Len(s)].time]

\* the request of fetchDataForRange (limit=5000)
RangeRequest(sel, startTime, endTime) ==
    [sel |-> sel, start |-> startTime, end |-> endTime]

\* the windows handleVisibleRangeChange asks fetchDataForRange for, in order
Windows(fromTime, toTime, currentRange) ==
    LET rangeSize == toTime - fromTime
        \* fromTime < currentRange.min + rangeSize * 0.5
        older == 2 * fromTime < 2 * currentRange.min + rangeSize
        \* toTime > currentRange.max - rangeSize * 0.5
        newer == 2 * toTime > 2 * currentRange.max - rangeSize
    IN  IF currentRange = NoExtent THEN <<<<fromTime, toTime>>>>
        ELSE (IF older THEN <<<<fromTime - rangeSize, currentRange.min>>>> ELSE <<>>)
             \o (IF newer THEN <<<<currentRange.max, toTime + rangeSize>>>> ELSE <<>>)

\* the requests outstanding after fetchDataForRange was called for each
\* window in turn: a call returns at once while loadingRef.current is set
RECURSIVE Sent(_, _, _, _)
Sent(sel, windows, ref, sent) ==
    IF windows = <<>> THEN sent
    ELSE IF ref \/ Len(sent) > 0
         THEN Sent(sel, Tail(windows), TRUE, sent)
         ELSE Sent(sel, Tail(windows), TRUE,
                   <<RangeRequest(sel, windows[1][1], windows[1][2])>>)

\* the chart reports the visible time range: handleVisibleRangeChange
VisibleRangeChange(fromTime, toTime) ==
    /\ fromTime < toTime
    /\ ShowChart(loading, data)
    /\ Len(inflight) + Len(liveInflight) < MaxInflight
    /\ LET windows == Windows(fromTime, toTime, dataRangeRef)
           sent == Sent(Sel, windows, loadingRef, <<>>)
       IN  /\ inflight' = inflight \o sent
           /\ loadingRef' = (loadingRef \/ Len(windows) > 0)
           /\ error' = IF Len(sent) > 0 THEN None ELSE error
           /\ last' = [op |-> "range", wanted |-> Len(windows), sent |-> Len(sent),
                       free |-> ~loadingRef]
    /\ UNCHANGED <<symbol, timeframe, data, loading, liveInflight, autoUpdate,
                   intervals, dataRangeRef>>
    /\ UNCHANGED <<rangeIdle, mergeVars, timerVars>>

\* the continuation of fetchDataForRange for request inflight[i]
RangeSettle(i, ok, rawData) ==
    /\ i \in 1..Len(inflight)
    /\ LET stores == ok /\ Len(rawData) > 0
           combined == MergeRange(data, ChartData(rawData))
       IN  /\ data' = IF stores THEN combined ELSE data
           /\ dataRangeRef' = IF stores /\ Len(combined) > 0 THEN Extent(combined)
                              ELSE dataRangeRef
           /\ error' = IF ok THEN error ELSE "Failed to fetch data"
    /\ loadingRef' = FALSE
    /\ inflight' = Remove(inflight, i)
    /\ last' = [op |-> "merged"]
    /\ UNCHANGED <<symbol, timeframe, loading, liveInflight, autoUpdate, intervals>>
    /\ UNCHANGED <<rangeIdle, mergeVars, timerVars>>

\* loadInitialData up to its await, called from a closure over selection sel
LoadInitialData(sel) ==
    /\ Len(inflight) + Len(liveInflight) < MaxInflight
    /\ loading' = TRUE
    /\ error' = None
    /\ liveInflight' = Append(liveInflight, [sel |-> sel])

\* onChange of the symbol input or of the timeframe select
RangeSelectionChange(s, tf) ==
    /\ <<s, tf>> # Sel
    /\ symbol' = s
    /\ timeframe' = tf
    /\ LoadInitialData(<<s, tf>>)
    /\ intervals' = IntervalEffect(intervals, autoUpdate, <<s, tf>>)
    /\ last' = [op |-> "select"]
    /\ UNCHANGED <<data, loadingRef, inflight, autoUpdate, dataRangeRef>>
    /\ UNCHANGED <<rangeIdle, mergeVars, timerVars>>

\* onClick of the Refresh button (disabled while loading)
RangeRefresh ==
    /\ ~loading
    /\ LoadInitialData(Sel)
    /\ last' = [op |-> "refresh"]
    /\ UNCHANGED <<symbol, timeframe, data, loadingRef, inflight, autoUpdate,
                   intervals, dataRangeRef>>
    /\ UNCHANGED <<rangeIdle, mergeVars, timerVars>>

\* onChange of the Auto Update checkbox
RangeToggleAutoUpdate ==
    /\ autoUpdate' = ~autoUpdate
    /\ intervals' = IntervalEffect(intervals, ~autoUpdate, Sel)
    /\ last' = [op |-> "toggle"]
    /\ UNCHANGED <<symbol, timeframe, data, loading, error, loadingRef, inflight,
                   liveInflight, dataRangeRef>>
    /\ UNCHANGED <<rangeIdle, mergeVars, timerVars>>

\* a 5 s interval fires: loadInitialData of the render that set it
RangeIntervalTick ==
    /\ \E k \in 1..Len(intervals) : LoadInitialData(intervals[k].sel)
    /\ last' = [op |-> "tick"]
    /\ UNCHANGED <<symbol, timeframe, data, loadingRef, inflight, autoUpdate,
                   intervals, dataRangeRef>>
    /\ UNCHANGED <<rangeIdle, mergeVars, timerVars>>

\* the continuation of loadInitialData for request liveInflight[i]
InitialSettle(i, ok, rawData) ==
    /\ i \in 1..Len(liveInflight)
    /\ LET chartData == ChartData(rawData)
       IN  /\ data' = IF ok THEN chartData ELSE data
           /\ dataRangeRef' = IF ok /\ Len(chartData) > 0 THEN Extent(chartData)
                              ELSE dataRangeRef
           /\ error' = IF ok THEN error ELSE "Failed to fetch data"
    /\ loading' = FALSE
    /\ liveInflight' = Remove(liveInflight, i)
    /\ last' = [op |-> "loaded"]
    /\ UNCHANGED <<symbol, timeframe, loadingRef, inflight, autoUpdate, intervals>>
    /\ UNCHANGED <<rangeIdle, mergeVars, timerVars>>

\* after the first commit: the [symbol, timeframe] effect has called
\* loadInitialData()
InitRange ==
    /\ symbol = "XAUUSD"
    /\ timeframe = "1h"
    /\ data = <<>>
    /\ dataRef = <<>>
    /\ loading = TRUE
    /\ loadingMore = FALSE
    /\ error = None
    /\ loadingRef = FALSE
    /\ inflight = <<>>
    /\ liveInflight = <<[sel |-> <<"XAUUSD", "1h">>]>>
    /\ dataRangeRef = NoExtent
    /\ chart = NoChart
    /\ last = [op |-> "loading"]
    /\ exhaustedFor = NoSel
    /\ sources = {}
    /\ autoUpdate = FALSE
    /\ isLoadingRef = FALSE
    /\ closureData = <<>>
    /\ intervals = <<>>
    /\ MergeIdle
    /\ TimersIdle

NextRange ==
    \/ \E fromTime \in RangeTimes, toTime \in RangeTimes : VisibleRangeChange(fromTime, toTime)
    \/ \E i \in 1..MaxInflight : RangeSettle(i, FALSE, <<>>)
    \/ \E i \in 1..MaxInflight, rawData \in AutoBatches : RangeSettle(i, TRUE, rawData)
    \/ \E s \in Symbols, tf \in TIMEFRAMES : RangeSelectionChange(s, tf)
    \/ RangeRefresh
    \/ RangeToggleAutoUpdate
    \/ RangeIntervalTick
    \/ \E i \in 1..MaxInflight : InitialSettle(i, FALSE, <<>>)
    \/ \E i \in 1..MaxInflight, rawData \in AutoBatches : InitialSettle(i, TRUE, rawData)

SpecRange == InitRange /\ [][NextRange]_vars

\* C21: in the range-based variant dataRangeRef holds the minimum and the
\* maximum time of data, and no extent when data is empty.
C21_ExtentOfSeries ==
    dataRangeRef = IF Len(data) = 0 THEN NoExtent
                   ELSE [min |-> MinTime(data),
                         max |-> CHOOSE t \in Times(data) : \A u \in Times(data) : u <= t]

\* C29: a visible-range change that asks for the older and for the newer
\* window while no request is outstanding sends both requests.
C29_BothWindowsSent ==
    [][(last'.op = "range" /\ last'.wanted = 2 /\ last'.free)
       => (Len(inflight') = Len(inflight) + 2 /\ last'.sent = 2)]_vars

====
